---- MODULE Spec2Model ----
(***************************************************************************)
(* A model of the KallistiOS ramdisk file system, kernel/fs/fs_ramdisk.c.  *)
(*                                                                         *)
(* Each driver operation runs under rd_mutex from its first statement to   *)
(* its return (mutex_lock_scoped), so it is one atomic action.  The two    *)
(* bridge functions fs_ramdisk_attach / fs_ramdisk_detach call the driver  *)
(* operations one after another and touch the node in between WITHOUT the  *)
(* mutex, so they are modelled step by step, per calling thread.           *)
(*                                                                         *)
(* Every handler is first written as an operator from a state record       *)
(* [files, rootdir, fdq, errno] to a result [s |-> state, ret |-> value,   *)
(* out |-> bytes]; the action applies it.  Sequences of calls can then be  *)
(* evaluated from every reachable state.                                   *)
(*                                                                         *)
(* A data block is kept run-length encoded: a sequence of <<byte, count>>  *)
(* runs, so that blocks of rd_blksize bytes and more stay small.           *)
(* Allocation is assumed to succeed (malloc/calloc/realloc never return    *)
(* NULL here).                                                             *)
(***************************************************************************)
EXTENDS Integers, Sequences, FiniteSets, TLC

\* ------------------------------------------------------------- bounds
MaxNodes == 2       \* rd_file_t blocks the heap can hold besides the root
MaxFds == 2         \* descriptors open at once
NumThreads == 1     \* threads inside fs_ramdisk_attach / fs_ramdisk_detach at once
MaxFileSize == 4100 \* no write is started that would end beyond this offset
NumLockThreads == 2 \* threads contending for rd_mutex in SpecLock

\* ---------------------------------------------------- program constants
rd_blksize == 1024
OPENFOR_NOTHING == 0
OPENFOR_READ == 1
OPENFOR_WRITE == 2

NULL == 0
NodeIds == 1..MaxNodes
RootId == MaxNodes + 1
Threads == 1..NumThreads

\* A uint32_t is kept as the 32-bit two's-complement integer with the same
\* bits, so that 0xFFFFFFFF is -1: sums and differences then wrap as the
\* machine's do, and only the unsigned comparisons need spelling out.
UGt(a, b) == IF (a < 0) = (b < 0) THEN a > b ELSE a < 0
ULt(a, b) == UGt(b, a)

\* ------------------------------------------------------------ data blocks
\* The bytes of a block: runs <<byte, count>>, count > 0, neighbours differ.
RECURSIVE DLen(_)
DLen(d) == IF d = <<>> THEN 0 ELSE d[1][2] + DLen(Tail(d))

Cat(a, b) ==
    IF a = <<>> THEN b
    ELSE IF b = <<>> THEN a
    ELSE IF a[Len(a)][1] = b[1][1]
         THEN SubSeq(a, 1, Len(a) - 1)
              \o << <<b[1][1], a[Len(a)][2] + b[1][2]>> >> \o Tail(b)
         ELSE a \o b

RECURSIVE Take(_, _)
Take(d, k) ==
    IF k <= 0 \/ d = <<>> THEN <<>>
    ELSE IF d[1][2] <= k THEN Cat(<<d[1]>>, Take(Tail(d), k - d[1][2]))
    ELSE << <<d[1][1], k>> >>

RECURSIVE Drop(_, _)
Drop(d, k) ==
    IF k <= 0 THEN d
    ELSE IF d = <<>> THEN <<>>
    ELSE IF d[1][2] <= k THEN Drop(Tail(d), k - d[1][2])
    ELSE << <<d[1][1], d[1][2] - k>> >> \o Tail(d)

\* A byte never written (malloc'd, not initialised) is held as UNINIT.  No
\* read below copies one out: read stops at size, and seek clamps the cursor
\* to size, so every byte below size has been written or installed.
UNINIT == 0
Pad(d, k) == IF DLen(d) < k THEN Cat(d, << <<UNINIT, k - DLen(d)>> >>) ELSE d

\* memcpy(data + ptr, buf, bytes): the block after the copy.
MemWrite(data, ptr, buf) ==
    Cat(Cat(Pad(Take(data, ptr), ptr), buf), Drop(data, ptr + DLen(buf)))

\* memcpy(buf, data + ptr, bytes): the bytes copied out.
\* A count with the top bit set runs past every block.
MemRead(data, ptr, bytes) ==
    IF bytes < 0 THEN Drop(data, ptr) ELSE Take(Drop(data, ptr), bytes)

\* ------------------------------------------------------------------ state
VARIABLES
    files,        \* the rd_file_t blocks in use: node id -> rd_file_t (root included)
    rootdir,      \* the root directory's LIST of rd_file_t, head first
    rd_fd_queue,  \* the rd_fd_t blocks in use: handle -> rd_fd_t
    errno,        \* the error code the last failing call left
    pc,           \* per thread: where it stands in fs_ramdisk_attach / _detach
    loc,          \* per thread: the arguments and locals of that call
    rd_mutex,     \* the thread holding rd_mutex, NULL when it is free
    rootdir_ptr,  \* the pointer rootdir itself: "NULL", "LIVE" or "FREED" (dangling)
    panic         \* TRUE once undefined behaviour has brought the kernel down

vars == <<files, rootdir, rd_fd_queue, errno, pc, loc, rd_mutex, rootdir_ptr, panic>>
\* What no driver operation assigns on a defined path.
kern == <<rd_mutex, rootdir_ptr, panic>>

\* The file system's own state, as the handlers below take and return it.
St == [files |-> files, rootdir |-> rootdir, fdq |-> rd_fd_queue, errno |-> errno]

\* What a handler returns: the state it leaves, its return value, and the
\* bytes it copied out to the caller (read, detach).
Res(s, ret, out) == [s |-> s, ret |-> ret, out |-> out]
Fail(s, e, ret) == Res([s EXCEPT !.errno = e], ret, <<>>)

\* ------------------------------------------------------------------ names
\* strncasecmp: names are compared with case folded.
Fold(n) == IF n = "A" THEN "a" ELSE IF n = "B" THEN "b" ELSE n

\* Paths are sequences of segments, the leading '/' already skipped
\* (ramdisk_open does fn++; ramdisk_find_path skips an empty first segment).
\* <<>> is the empty path: the root directory itself.
Paths == { <<>>, <<"a">>, <<"d", "x">> }
IOPaths == { <<"a">>, <<"A">> }

\* Open modes are sets of flags; O_RDONLY is the absence of both access bits.
O_RDONLY == {}
AccessBits == {"O_WRONLY", "O_RDWR"}
ModeOf(mode) == mode \cap AccessBits   \* mode & O_MODE_MASK
\* O_APPEND is left out of the read-only modes: whether it is one of the
\* bits O_MODE_MASK keeps is decided by headers, not by this file.
Modes == { {}, {"O_DIR"}, {"O_RDWR"}, {"O_WRONLY", "O_TRUNC"},
           {"O_WRONLY", "O_APPEND"}, {"O_WRONLY", "O_DIR"} }
IOModes == { {}, {"O_WRONLY"}, {"O_WRONLY", "O_TRUNC"}, {"O_RDWR", "O_TRUNC"},
             {"O_RDWR", "O_APPEND"}, {"O_WRONLY", "O_APPEND", "O_TRUNC"} }

\* ------------------------------------------------------- path resolution
RECURSIVE FindIn(_, _, _)
FindIn(s, parent, name) ==
    IF parent = <<>> THEN NULL
    ELSE IF Fold(s.files[parent[1]].name) = Fold(name) THEN parent[1]
    ELSE FindIn(s, Tail(parent), name)

ramdisk_find(s, parent, name) == FindIn(s, parent, name)

\* The list a directory node holds.  Only the root is ever a directory:
\* nothing in the driver creates one (mkdir is NULL in the handler table).
DirList(s, f) == IF f = RootId THEN s.rootdir ELSE <<>>

RECURSIVE ramdisk_find_path(_, _, _, _)
ramdisk_find_path(s, parent, fn, dir) ==
    IF Len(fn) > 1
    THEN LET f == ramdisk_find(s, parent, fn[1])
         IN  IF f = NULL \/ ~s.files[f].isdir THEN NULL
             ELSE ramdisk_find_path(s, DirList(s, f), Tail(fn), dir)
    ELSE IF Len(fn) = 1
    THEN LET f == ramdisk_find(s, parent, fn[1])
         IN  IF f = NULL \/ (~dir /\ s.files[f].isdir) \/ (dir /\ ~s.files[f].isdir)
             THEN NULL ELSE f
    ELSE NULL   \* fn[0] == 0: f is still NULL, whatever dir says

\* 0 and the parent list, or -1 with ENOENT.
ramdisk_get_parent(s, parent, fn) ==
    IF Len(fn) <= 1 THEN Res(s, 0, <<>>)
    ELSE IF ramdisk_find_path(s, parent, SubSeq(fn, 1, Len(fn) - 1), TRUE) = NULL
         THEN Fail(s, "ENOENT", -1)
         ELSE Res(s, 0, <<>>)

\* A file that starts without its first block.
NewFile_NoBlock(name, dir) ==
    [name |-> name, size |-> 0, isdir |-> dir, openfor |-> OPENFOR_NOTHING,
     usage |-> 0, data |-> <<>>, datasize |-> 0]

NewFile(name, dir) ==
    [name |-> name, size |-> 0, isdir |-> dir, openfor |-> OPENFOR_NOTHING,
     usage |-> 0, data |-> <<>>, datasize |-> IF dir THEN 0 ELSE rd_blksize]

\* nid is the block malloc hands out for the new rd_file_t.
ramdisk_create_file(s, fn, dir, nid) ==
    LET g == ramdisk_get_parent(s, s.rootdir, fn)
    IN  IF g.ret < 0 THEN Res(g.s, NULL, <<>>)
        ELSE Res([s EXCEPT !.files = (nid :> NewFile(fn[Len(fn)], dir)) @@ s.files,
                           !.rootdir = <<nid>> \o s.rootdir],
                 nid, <<>>)

\* ------------------------------------------------------------------- open
\* calloc's block for a new rd_fd_t: the lowest handle not in use.
NewFd(s) == CHOOSE h \in 1..(Cardinality(DOMAIN s.fdq) + 1) :
                /\ h \notin DOMAIN s.fdq
                /\ \A k \in 1..(h - 1) : k \in DOMAIN s.fdq

ListFirst(l) == IF l = <<>> THEN NULL ELSE l[1]

\* The check as it would be without the writer test.
AlreadyOpenForWrite_Skipped(n) == FALSE

\* "Is the file already open for write?": open returns NULL, errno untouched.
AlreadyOpenForWrite(n) == n.openfor = OPENFOR_WRITE

\* In the write branch, "if(f->openfor == OPENFOR_READ) return NULL;": again
\* errno is untouched (and the rd_fd_t just allocated is not freed).
OpenForReadBlocksWrite(n, mm) == mm # O_RDONLY /\ n.openfor = OPENFOR_READ

\* ramdisk_open from "Did we ask for a dir as a file?" on, f found or created.
\* mem is what calloc returns for the new rd_fd_t: a fresh handle, or NULL.
OpenNode(s, f, mode, mem) ==
    LET mm  == ModeOf(mode)
        isd == "O_DIR" \in mode
        n   == s.files[f]
        h   == mem
        ptr0 == IF isd THEN ListFirst(DirList(s, f))
                ELSE IF mm # O_RDONLY /\ "O_APPEND" \in mode THEN n.size
                ELSE 0
        trunc == mm # O_RDONLY /\ "O_APPEND" \notin mode /\ "O_TRUNC" \in mode
        n1  == [n EXCEPT !.openfor = IF mm = O_RDONLY THEN OPENFOR_READ ELSE OPENFOR_WRITE,
                         !.usage = @ + 1,
                         !.size = IF trunc THEN 0 ELSE @,
                         !.datasize = IF trunc THEN rd_blksize ELSE @,
                         !.data = IF trunc THEN <<>> ELSE @]
        fd  == [file |-> f, dir |-> isd, ptr |-> ptr0, omode |-> mode]
    IN  IF n.isdir /\ ~isd THEN Fail(s, "EINVAL", NULL)
        ELSE IF AlreadyOpenForWrite(n) THEN Res(s, NULL, <<>>)
        ELSE IF mem = NULL THEN Fail(s, "ENOMEM", NULL)
        ELSE IF OpenForReadBlocksWrite(n, mm) THEN Res(s, NULL, <<>>)
        ELSE Res([s EXCEPT !.files[f] = n1, !.fdq = (h :> fd) @@ s.fdq], h, <<>>)

ramdisk_open_fd(s, fn, mode, nid, fd) ==
    LET mm  == ModeOf(mode)
        isd == "O_DIR" \in mode
        f   == IF fn = <<>> THEN RootId ELSE ramdisk_find_path(s, s.rootdir, fn, isd)
    IN  IF isd /\ mm # O_RDONLY THEN Fail(s, "EISDIR", NULL)
        ELSE IF f # NULL THEN OpenNode(s, f, mode, fd)
        ELSE IF mm # O_RDONLY /\ ~isd
             THEN LET c == ramdisk_create_file(s, fn, isd, nid)
                  IN  IF c.ret = NULL THEN c ELSE OpenNode(c.s, c.ret, mode, fd)
             ELSE Fail(s, "ENOENT", NULL)

\* ramdisk_open where calloc hands out the next free descriptor.
ramdisk_open(s, fn, mode, nid) == ramdisk_open_fd(s, fn, mode, nid, NewFd(s))

\* ------------------------------------------------------------------ close
ramdisk_fd_invalid(s, h) == h = NULL \/ h \notin DOMAIN s.fdq

RemoveFd(q, h) == [k \in DOMAIN q \ {h} |-> q[k]]

\* A close that never resets openfor, and one that resets it on every close.
OpenforAfterClose_Kept(openfor, usage) == openfor
OpenforAfterClose_Always(openfor, usage) == OPENFOR_NOTHING

\* "If the usage count is back to 0, then no one has the file open."
OpenforAfterClose(openfor, usage) == IF usage = 0 THEN OPENFOR_NOTHING ELSE openfor

ramdisk_close(s, h) ==
    IF ramdisk_fd_invalid(s, h) THEN Fail(s, "EBADF", 0)
    ELSE LET f  == s.fdq[h].file
             u  == s.files[f].usage - 1
             n1 == [s.files[f] EXCEPT !.usage = u,
                        !.openfor = OpenforAfterClose(@, u)]
         IN  Res([s EXCEPT !.files[f] = n1, !.fdq = RemoveFd(s.fdq, h)], 0, <<>>)

\* ----------------------------------------------------------- read / write
\* The count ramdisk_read hands to memcpy ("Is there enough left?").
ReadCount(ptr, size, bytes) == IF UGt(ptr + bytes, size) THEN size - ptr ELSE bytes

\* memcpy(buf, data + ptr, bytes) reads outside the block data points to:
\* the count, unsigned, reaches beyond datasize.  (size - ptr has wrapped
\* when the cursor stands beyond size; ptr + bytes has wrapped when the
\* caller's count is that large.)
ReadOverruns(s, h, bytes) ==
    /\ ~ramdisk_fd_invalid(s, h)
    /\ ~s.fdq[h].dir
    /\ LET fd  == s.fdq[h]
           n   == s.files[fd.file]
           cnt == ReadCount(fd.ptr, n.size, bytes)
       IN  cnt # 0 /\ (cnt < 0 \/ fd.ptr < 0 \/ fd.ptr + cnt > n.datasize)

ramdisk_read(s, h, bytes) ==
    IF ramdisk_fd_invalid(s, h) \/ s.fdq[h].dir THEN Fail(s, "EBADF", -1)
    ELSE LET fd == s.fdq[h]
             n  == s.files[fd.file]
             \* Is there enough left?
             cnt == ReadCount(fd.ptr, n.size, bytes)
         IN  Res([s EXCEPT !.fdq[h].ptr = fd.ptr + cnt],
                 cnt, MemRead(n.data, fd.ptr, cnt))

\* Growth with one block of slack instead of four.
DatasizeAfterWrite_OneBlock(datasize, ptr, bytes) ==
    IF UGt(ptr + bytes, datasize) THEN (ptr + bytes) + rd_blksize ELSE datasize

\* "We need to realloc the block": the capacity a write leaves.
DatasizeAfterWrite(datasize, ptr, bytes) ==
    IF UGt(ptr + bytes, datasize) THEN (ptr + bytes) + (rd_blksize * 4) ELSE datasize

\* A write that never moves the end of file.
SizeAfterWrite_Stale(size, ptr) == size

\* if(fd->file->size < fd->ptr) fd->file->size = fd->ptr;
SizeAfterWrite(size, ptr) == IF ULt(size, ptr) THEN ptr ELSE size

\* buf is the caller's block; bytes is its length.
\* A write check that lets every descriptor through.
NotOpenForWrite_Never(n) == FALSE

\* fd->file->openfor != OPENFOR_WRITE
NotOpenForWrite(n) == n.openfor # OPENFOR_WRITE

ramdisk_write(s, h, buf) ==
    IF \/ ramdisk_fd_invalid(s, h)
       \/ s.fdq[h].dir
       \/ NotOpenForWrite(s.files[s.fdq[h].file])
    THEN Fail(s, "EBADF", -1)
    ELSE LET fd    == s.fdq[h]
             n     == s.files[fd.file]
             bytes == DLen(buf)
             ptr1  == fd.ptr + bytes
             n1    == [n EXCEPT !.datasize = DatasizeAfterWrite(@, fd.ptr, bytes),
                                !.data = MemWrite(@, fd.ptr, buf),
                                !.size = SizeAfterWrite(@, ptr1)]
         IN  Res([s EXCEPT !.files[fd.file] = n1, !.fdq[h].ptr = ptr1], bytes, <<>>)

\* ------------------------------------------------------ seek / tell / total
Whences == {"SEEK_SET", "SEEK_CUR", "SEEK_END", "OTHER"}

\* The switch of ramdisk_seek: where it returns -1 with EINVAL ...
SeekInvalid(ptr, size, offset, whence) ==
    IF whence = "SEEK_SET" THEN offset < 0
    ELSE IF whence = "SEEK_CUR" THEN offset < 0 /\ UGt(-offset, ptr)
    ELSE IF whence = "SEEK_END" THEN offset < 0 /\ UGt(-offset, size)
    ELSE TRUE

\* ... and the fd->ptr it sets where it does not.
SeekTarget(ptr, size, offset, whence) ==
    IF whence = "SEEK_SET" THEN offset
    ELSE IF whence = "SEEK_CUR" THEN ptr + offset
    ELSE size + offset

\* A seek without the final range check.
SeekClamp_None(ptr, size) == ptr

\* Check bounds
SeekClamp(ptr, size) == IF UGt(ptr, size) THEN size ELSE ptr

ramdisk_seek(s, h, offset, whence) ==
    IF ramdisk_fd_invalid(s, h) \/ s.fdq[h].dir THEN Fail(s, "EBADF", -1)
    ELSE LET fd == s.fdq[h]
             n  == s.files[fd.file]
             p  == SeekClamp(SeekTarget(fd.ptr, n.size, offset, whence), n.size)
         IN  IF SeekInvalid(fd.ptr, n.size, offset, whence) THEN Fail(s, "EINVAL", -1)
             ELSE Res([s EXCEPT !.fdq[h].ptr = p], p, <<>>)

ramdisk_tell(s, h) ==
    IF ramdisk_fd_invalid(s, h) \/ s.fdq[h].dir THEN Fail(s, "EBADF", -1)
    ELSE Res(s, s.fdq[h].ptr, <<>>)

ramdisk_total(s, h) ==
    IF ramdisk_fd_invalid(s, h) \/ s.fdq[h].dir THEN Fail(s, "EBADF", -1)
    ELSE Res(s, s.files[s.fdq[h].file].size, <<>>)

\* ----------------------------------------------------------------- unlink
RECURSIVE ListRemove(_, _)
ListRemove(l, f) ==
    IF l = <<>> THEN <<>>
    ELSE IF l[1] = f THEN Tail(l)
    ELSE <<l[1]>> \o ListRemove(Tail(l), f)

FreeFile(fs, f) == [k \in DOMAIN fs \ {f} |-> fs[k]]

\* An unlink that does not look at the usage count.
InUse_Ignored(n) == FALSE

\* "Make sure it's not in use"
InUse(n) == n.usage # 0

ramdisk_unlink(s, fn) ==
    LET f == ramdisk_find_path(s, s.rootdir, fn, FALSE)
    IN  IF f = NULL THEN Fail(s, "ENOENT", -1)
        ELSE IF InUse(s.files[f]) THEN Fail(s, "EBUSY", -1)
        ELSE Res([s EXCEPT !.files = FreeFile(s.files, f),
                           !.rootdir = ListRemove(s.rootdir, f)],
                 0, <<>>)

\* ----------------------------------------------------- readdir / rewinddir
\* LIST_NEXT(f, dirlist): the entry after f in its list, NULL after the last.
RECURSIVE ListNext(_, _)
ListNext(l, f) ==
    IF l = <<>> THEN NULL
    ELSE IF l[1] = f THEN ListFirst(Tail(l))
    ELSE ListNext(Tail(l), f)

\* "f = (rd_file_t *)fd->ptr; fd->ptr = LIST_NEXT(f, dirlist);" is done with
\* no test of f: at the end of the list, and on an empty directory, f is
\* NULL, and after an unlink it may point into a freed block.  Either way
\* the handler reads through a pointer that refers to no rd_file_t.
ReaddirDerefsBadPtr(s, h) ==
    /\ ~ramdisk_fd_invalid(s, h)
    /\ s.fdq[h].dir
    /\ (s.fdq[h].ptr = NULL \/ s.fdq[h].ptr \notin DOMAIN s.files)

\* ramdisk_readdir where fd->ptr refers to an entry: ret is the address of
\* fd->dirent (the handle stands for it), out is the dirent filled in.
ramdisk_readdir(s, h) ==
    IF ramdisk_fd_invalid(s, h) \/ ~s.fdq[h].dir THEN Fail(s, "EBADF", NULL)
    ELSE LET fd == s.fdq[h]
             f  == fd.ptr
             n  == s.files[f]
         IN  Res([s EXCEPT !.fdq[h].ptr = ListNext(DirList(s, fd.file), f)],
                 h,
                 [name |-> n.name,
                  attr |-> IF n.isdir THEN {"O_DIR"} ELSE {},
                  size |-> IF n.isdir THEN -1 ELSE n.size])

ramdisk_rewinddir(s, h) ==
    IF ramdisk_fd_invalid(s, h) \/ ~s.fdq[h].dir THEN Fail(s, "EBADF", -1)
    ELSE Res([s EXCEPT !.fdq[h].ptr = ListFirst(DirList(s, s.fdq[h].file))], 0, <<>>)

\* ------------------------------------------------------------ stat / fstat
\* __align_up(datasize, rd_blksize) / rd_blksize
StBlocks(datasize) == (datasize + rd_blksize - 1) \div rd_blksize

\* The fields of struct stat the two handlers fill in from the node.
StatOf(n, isdir) ==
    [st_size |-> IF isdir THEN -1 ELSE n.datasize,
     st_dir |-> isdir,
     st_nlink |-> IF isdir THEN 2 ELSE 1,
     st_blksize |-> rd_blksize,
     st_blocks |-> StBlocks(n.datasize)]

\* "Root directory of ramdisk": answered before the mutex is taken.
StatOfRoot ==
    [st_size |-> -1, st_dir |-> TRUE, st_nlink |-> 2, st_blksize |-> 0, st_blocks |-> 0]

ramdisk_stat(s, path) ==
    IF path = <<>> THEN Res(s, 0, StatOfRoot)
    ELSE LET f == ramdisk_find_path(s, s.rootdir, path, FALSE)
         IN  IF f = NULL THEN Fail(s, "ENOENT", -1)
             ELSE Res(s, 0, StatOf(s.files[f], s.files[f].isdir))

ramdisk_fstat(s, h) ==
    IF ramdisk_fd_invalid(s, h) THEN Fail(s, "EBADF", -1)
    ELSE LET n == s.files[s.fdq[h].file]
         IN  Res(s, 0, StatOf(n, n.isdir))

\* ------------------------------------------------- attach / detach, unlocked
\* An attach that installs the block but leaves the file size alone.
AttachInstall_NoSize(s, h, obj, size) ==
    LET f == s.fdq[h].file
    IN  [s EXCEPT !.files[f].data = obj,
                  !.files[f].datasize = size]

\* fs_ramdisk_attach between its open and its close: no mutex is held.
AttachInstall(s, h, obj, size) ==
    LET f == s.fdq[h].file
    IN  [s EXCEPT !.files[f].data = obj,
                  !.files[f].datasize = size,
                  !.files[f].size = size]

\* fs_ramdisk_detach, "Ditch the data block we had and replace it with a
\* fake one": no mutex is held.
DetachClear(s, h) ==
    LET f == s.fdq[h].file
    IN  [s EXCEPT !.files[f].data = <<>>,
                  !.files[f].datasize = 0,
                  !.files[f].size = 0]

\* ------------------------------------------------------------------ inputs
AttachBufs == { << <<2, 1>>, <<1, 1>> >>, << <<2, 3>> >> }
WriteBufs == { << <<1, 1>>, <<2, 999>> >>, << <<2, 2000>> >> }
ReadCounts == {0, 1000, 7000}
SeekOffsets == {-7000, -1000, 0, 1000, 7000}

\* ------------------------------------------------------------------- Init
\* The state fs_ramdisk_init leaves: an empty root, no descriptor.
RootFile ==
    [name |-> "/", size |-> 0, isdir |-> TRUE, openfor |-> OPENFOR_NOTHING,
     usage |-> 0, data |-> <<>>, datasize |-> 0]

NoFds == [h \in {} |-> NULL]
IdleLoc == [fn |-> <<>>, obj |-> <<>>, size |-> 0, fd |-> NULL]

\* ------------------------------------------------------- init / shutdown
\* The driver as fs_ramdisk_init and fs_ramdisk_shutdown see it: the file
\* system state, the pointer rootdir, and the mutex.
Kern(s, p, m) == [s |-> s, rootdir_ptr |-> p, rd_mutex |-> m]

\* An init without its test.
Initted_Never(p) == FALSE

\* "Test if initted": if(rootdir != NULL) return;  -- true of a dangling
\* pointer as much as of a live one.
Initted(p) == p # "NULL"

\* fs_ramdisk_init: a new empty root, an empty descriptor queue, the mutex
\* initialised.  Blocks allocated before stay allocated.
fs_ramdisk_init(k) ==
    IF Initted(k.rootdir_ptr) THEN k
    ELSE Kern([k.s EXCEPT !.files = (RootId :> RootFile) @@ @,
                          !.rootdir = <<>>,
                          !.fdq = NoFds],
              "LIVE", NULL)

\* fs_ramdisk_shutdown on a pointer already freed walks and frees the list
\* a second time.
ShutdownUsesFreed(k) == k.rootdir_ptr = "FREED"

\* fs_ramdisk_shutdown with rootdir live: every entry of the root list is
\* freed, then rootdir and root.  rootdir itself is not assigned: it keeps
\* pointing at the freed block.  rd_fd_queue is not touched: descriptors
\* still in it are left pointing at freed files.
fs_ramdisk_shutdown(k) ==
    IF k.rootdir_ptr = "NULL" THEN k
    ELSE Kern([k.s EXCEPT
                   !.files = [f \in DOMAIN @ \ ({RootId} \cup {k.s.rootdir[i] : i \in DOMAIN k.s.rootdir})
                                  |-> @[f]],
                   !.rootdir = <<>>],
              "FREED", NULL)

\* The state fs_ramdisk_init has left when the first call arrives.
Init ==
    /\ files = (RootId :> RootFile)
    /\ rootdir = <<>>
    /\ rd_fd_queue = NoFds
    /\ errno = "none"
    /\ pc = [t \in Threads |-> "idle"]
    /\ loc = [t \in Threads |-> IdleLoc]
    /\ rd_mutex = NULL
    /\ rootdir_ptr = "LIVE"
    /\ panic = FALSE

\* ---------------------------------------------------------------- actions
Apply(s) ==
    /\ files' = s.files
    /\ rootdir' = s.rootdir
    /\ rd_fd_queue' = s.fdq
    /\ errno' = s.errno

\* Handles held inside a running attach or detach are known to no caller.
BridgeFds == { loc[t].fd : t \in Threads }
UserFds == DOMAIN rd_fd_queue \ BridgeFds
\* What a caller may pass as a handle: one it got from open, or NULL.
Handles == UserFds \cup {NULL}
\* The block malloc hands out for a new rd_file_t: the lowest one free
\* (NULL when none is: no path of the model then asks for one).
FreeNodes == IF NodeIds \ DOMAIN files = {} THEN {NULL}
             ELSE {CHOOSE i \in NodeIds \ DOMAIN files :
                       \A j \in NodeIds \ DOMAIN files : i <= j}
FdRoom == Cardinality(DOMAIN rd_fd_queue) < MaxFds

Open(fn, mode, nid) ==
    LET r == ramdisk_open(St, fn, mode, nid)
    IN  /\ FdRoom
        /\ NULL \notin DOMAIN r.s.files
        /\ Apply(r.s)
        /\ UNCHANGED <<pc, loc, kern>>

\* ramdisk_open when the heap has no room for the rd_fd_t.
OpenNoMem(fn, mode, nid) ==
    LET r == ramdisk_open_fd(St, fn, mode, nid, NULL)
    IN  /\ NULL \notin DOMAIN r.s.files
        /\ Apply(r.s)
        /\ UNCHANGED <<pc, loc, kern>>

Close(h) ==
    /\ Apply(ramdisk_close(St, h).s)
    /\ UNCHANGED <<pc, loc, kern>>

\* Undefined behaviour: the kernel faults, or the call comes back with
\* whatever the handler's arithmetic left (s).
Undefined(s) ==
    \/ /\ panic' = TRUE
       /\ UNCHANGED <<files, rootdir, rd_fd_queue, errno, pc, loc, rd_mutex, rootdir_ptr>>
    \/ /\ Apply(s)
       /\ UNCHANGED <<pc, loc, kern>>

Read(h, bytes) ==
    /\ ~ReadOverruns(St, h, bytes)
    /\ Apply(ramdisk_read(St, h, bytes).s)
    /\ UNCHANGED <<pc, loc, kern>>

\* max bounds the file: no write is started that would end beyond it.
Write(h, buf, max) ==
    /\ h # NULL => rd_fd_queue[h].ptr + DLen(buf) <= max
    /\ Apply(ramdisk_write(St, h, buf).s)
    /\ UNCHANGED <<pc, loc, kern>>

Seek(h, offset, whence) ==
    /\ Apply(ramdisk_seek(St, h, offset, whence).s)
    /\ UNCHANGED <<pc, loc, kern>>

Tell(h) ==
    /\ Apply(ramdisk_tell(St, h).s)
    /\ UNCHANGED <<pc, loc, kern>>

Total(h) ==
    /\ Apply(ramdisk_total(St, h).s)
    /\ UNCHANGED <<pc, loc, kern>>

Unlink(fn) ==
    /\ Apply(ramdisk_unlink(St, fn).s)
    /\ UNCHANGED <<pc, loc, kern>>

Stat(path) ==
    /\ Apply(ramdisk_stat(St, path).s)
    /\ UNCHANGED <<pc, loc, kern>>

Fstat(h) ==
    /\ Apply(ramdisk_fstat(St, h).s)
    /\ UNCHANGED <<pc, loc, kern>>

\* ramdisk_read where its memcpy leaves the block.
ReadWild(h, bytes) ==
    /\ ReadOverruns(St, h, bytes)
    /\ Undefined(ramdisk_read(St, h, bytes).s)

Readdir(h) ==
    /\ ~ReaddirDerefsBadPtr(St, h)
    /\ Apply(ramdisk_readdir(St, h).s)
    /\ UNCHANGED <<pc, loc, kern>>

\* ramdisk_readdir through a pointer to no entry: the cursor it stores is
\* whatever the word it read held.
ReaddirWild(h, garbage) ==
    /\ ReaddirDerefsBadPtr(St, h)
    /\ Undefined([St EXCEPT !.fdq[h].ptr = garbage])

Rewinddir(h) ==
    /\ Apply(ramdisk_rewinddir(St, h).s)
    /\ UNCHANGED <<pc, loc, kern>>

\* fs_ramdisk_attach: ramdisk_open(fn, O_WRONLY | O_TRUNC), return -1 if NULL.
AttachOpen(t, fn, obj, nid) ==
    LET r == ramdisk_open(St, fn, {"O_WRONLY", "O_TRUNC"}, nid)
    IN  /\ pc[t] = "idle"
        /\ FdRoom
        /\ NULL \notin DOMAIN r.s.files
        /\ Apply(r.s)
        /\ UNCHANGED kern
        /\ IF r.ret = NULL
           THEN UNCHANGED <<pc, loc>>
           ELSE /\ pc' = [pc EXCEPT ![t] = "attach_install"]
                /\ loc' = [loc EXCEPT ![t] = [fn |-> fn, obj |-> obj,
                                              size |-> DLen(obj), fd |-> r.ret]]

AttachData(t) ==
    /\ pc[t] = "attach_install"
    /\ Apply(AttachInstall(St, loc[t].fd, loc[t].obj, loc[t].size))
    /\ pc' = [pc EXCEPT ![t] = "attach_close"]
    /\ UNCHANGED <<loc, kern>>

\* ramdisk_close(fd); return 0;
AttachClose(t) ==
    /\ pc[t] = "attach_close"
    /\ Apply(ramdisk_close(St, loc[t].fd).s)
    /\ pc' = [pc EXCEPT ![t] = "idle"]
    /\ loc' = [loc EXCEPT ![t] = IdleLoc]
    /\ UNCHANGED kern

\* fs_ramdisk_detach: ramdisk_open(fn, O_RDONLY), return -1 if NULL.
DetachOpen(t, fn) ==
    LET r == ramdisk_open(St, fn, O_RDONLY, NULL)
    IN  /\ pc[t] = "idle"
        /\ FdRoom
        /\ Apply(r.s)
        /\ UNCHANGED kern
        /\ IF r.ret = NULL
           THEN UNCHANGED <<pc, loc>>
           ELSE /\ pc' = [pc EXCEPT ![t] = "detach_take"]
                /\ loc' = [loc EXCEPT ![t] = [IdleLoc EXCEPT !.fn = fn, !.fd = r.ret]]

\* *obj = f->data; *size = f->size;   (no mutex held)
DetachTake(t) ==
    LET f == rd_fd_queue[loc[t].fd].file
    IN  /\ pc[t] = "detach_take"
        /\ loc' = [loc EXCEPT ![t].obj = files[f].data, ![t].size = files[f].size]
        /\ pc' = [pc EXCEPT ![t] = "detach_clear"]
        /\ UNCHANGED <<files, rootdir, rd_fd_queue, errno, kern>>

DetachData(t) ==
    /\ pc[t] = "detach_clear"
    /\ Apply(DetachClear(St, loc[t].fd))
    /\ pc' = [pc EXCEPT ![t] = "detach_close"]
    /\ UNCHANGED <<loc, kern>>

DetachClose(t) ==
    /\ pc[t] = "detach_close"
    /\ Apply(ramdisk_close(St, loc[t].fd).s)
    /\ pc' = [pc EXCEPT ![t] = "detach_unlink"]
    /\ loc' = [loc EXCEPT ![t].fd = NULL]
    /\ UNCHANGED kern

\* ramdisk_unlink(&vh, fn); return 0;   (what unlink returns is dropped)
DetachUnlink(t) ==
    /\ pc[t] = "detach_unlink"
    /\ Apply(ramdisk_unlink(St, loc[t].fn).s)
    /\ pc' = [pc EXCEPT ![t] = "idle"]
    /\ loc' = [loc EXCEPT ![t] = IdleLoc]
    /\ UNCHANGED kern

\* Spec: the calls that decide who may hold a file -- open, close, unlink,
\* attach and detach -- from any number of callers, in any order.
Next ==
    \/ \E fn \in Paths, mode \in Modes, nid \in FreeNodes : Open(fn, mode, nid)
    \/ \E fn \in Paths, mode \in Modes, nid \in FreeNodes : OpenNoMem(fn, mode, nid)
    \/ \E h \in Handles : Close(h)
    \/ \E fn \in Paths : Unlink(fn)
    \/ \E t \in Threads, fn \in Paths, obj \in AttachBufs, nid \in FreeNodes :
           AttachOpen(t, fn, obj, nid)
    \/ \E t \in Threads : AttachData(t)
    \/ \E t \in Threads : AttachClose(t)
    \/ \E t \in Threads, fn \in Paths : DetachOpen(t, fn)
    \/ \E t \in Threads : DetachTake(t)
    \/ \E t \in Threads : DetachData(t)
    \/ \E t \in Threads : DetachClose(t)
    \/ \E t \in Threads : DetachUnlink(t)

Spec == Init /\ [][Next]_vars

\* SpecIO: one caller's file I/O through one descriptor at a time, with blocks
\* large enough to outgrow the first rd_blksize bytes.
OpenIO(fn, mode, nid) ==
    /\ rd_fd_queue = NoFds
    /\ Open(fn, mode, nid)

NextIO ==
    \/ \E fn \in IOPaths, mode \in IOModes, nid \in FreeNodes : OpenIO(fn, mode, nid)
    \/ \E h \in Handles : Close(h)
    \/ \E h \in Handles, bytes \in ReadCounts : Read(h, bytes)
    \/ \E h \in Handles, buf \in WriteBufs : Write(h, buf, MaxFileSize)
    \/ \E h \in Handles, off \in SeekOffsets, wh \in Whences : Seek(h, off, wh)
    \/ \E h \in Handles : Tell(h)
    \/ \E h \in Handles : Total(h)
    \/ \E path \in IOPaths \cup {<<>>} : Stat(path)
    \/ \E h \in Handles : Fstat(h)

SpecIO == Init /\ [][NextIO]_vars

\* SpecShare: callers that share files and the directory -- readers reading,
\* a directory being enumerated, attach and detach and unlink in between.
SharePaths == { <<>>, <<"a">>, <<"b">> }
ShareModes == { {}, {"O_DIR"}, {"O_WRONLY"} }
ShareCounts == {2, 7}
ShareBufs == { << <<3, 2>> >> }
Running == ~panic

NextShare ==
    \/ \E fn \in SharePaths, mode \in ShareModes, nid \in FreeNodes :
           Running /\ Open(fn, mode, nid)
    \/ \E h \in Handles : Running /\ Close(h)
    \/ \E fn \in SharePaths : Running /\ Unlink(fn)
    \/ \E h \in Handles, bytes \in ShareCounts : Running /\ Read(h, bytes)
    \/ \E h \in Handles, bytes \in ShareCounts : Running /\ ReadWild(h, bytes)
    \/ \E h \in Handles, buf \in ShareBufs : Running /\ Write(h, buf, DLen(buf))
    \/ \E h \in Handles : Running /\ Readdir(h)
    \/ \E h \in Handles, g \in NodeIds \cup {NULL} : Running /\ ReaddirWild(h, g)
    \/ \E h \in Handles : Running /\ Rewinddir(h)
    \/ \E t \in Threads, obj \in AttachBufs, nid \in FreeNodes :
           Running /\ AttachOpen(t, <<"a">>, obj, nid)
    \/ \E t \in Threads : Running /\ AttachData(t)
    \/ \E t \in Threads : Running /\ AttachClose(t)
    \/ \E t \in Threads : Running /\ DetachOpen(t, <<"a">>)
    \/ \E t \in Threads : Running /\ DetachTake(t)
    \/ \E t \in Threads : Running /\ DetachData(t)
    \/ \E t \in Threads : Running /\ DetachClose(t)
    \/ \E t \in Threads : Running /\ DetachUnlink(t)

SpecShare == Init /\ [][NextShare]_vars

\* SpecDir: a directory being enumerated while other callers create, unlink
\* and detach its entries.  Every call here is one whose behaviour the code
\* defines: readdir is called only on a ptr that refers to a live node.
NextDir ==
    \/ \E fn \in SharePaths, mode \in ShareModes, nid \in FreeNodes : Open(fn, mode, nid)
    \/ \E h \in Handles : Close(h)
    \/ \E fn \in SharePaths : Unlink(fn)
    \/ \E h \in Handles : Readdir(h)
    \/ \E h \in Handles : Rewinddir(h)
    \/ \E t \in Threads : DetachOpen(t, <<"a">>)
    \/ \E t \in Threads : DetachTake(t)
    \/ \E t \in Threads : DetachData(t)
    \/ \E t \in Threads : DetachClose(t)
    \/ \E t \in Threads : DetachUnlink(t)

SpecDir == Init /\ [][NextDir]_vars

\* SpecSize: what moves a file's size and datasize -- creation, truncating
\* open, write with and without growth, attach and detach.  Attach and detach
\* hold no mutex between their open and their close, so each of their stores
\* to the rd_file_t is a step other threads can come in between.
StoreData(s, h, d) == [s EXCEPT !.files[s.fdq[h].file].data = d]
StoreDatasize(s, h, v) == [s EXCEPT !.files[s.fdq[h].file].datasize = v]
StoreSize(s, h, v) == [s EXCEPT !.files[s.fdq[h].file].size = v]

StoreStep(t, from, to, s) ==
    /\ pc[t] = from
    /\ Apply(s)
    /\ pc' = [pc EXCEPT ![t] = to]
    /\ UNCHANGED <<loc, kern>>

\* free(f->data); f->data = obj;
AttachStoreData(t) ==
    StoreStep(t, "attach_install", "attach_datasize", StoreData(St, loc[t].fd, loc[t].obj))
\* f->datasize = size;
AttachStoreDatasize(t) ==
    StoreStep(t, "attach_datasize", "attach_size", StoreDatasize(St, loc[t].fd, loc[t].size))
\* f->size = size;
AttachStoreSize(t) ==
    StoreStep(t, "attach_size", "attach_close", StoreSize(St, loc[t].fd, loc[t].size))
\* f->data = NULL;
DetachStoreData(t) ==
    StoreStep(t, "detach_clear", "detach_datasize", StoreData(St, loc[t].fd, <<>>))
\* f->datasize = 0;
DetachStoreDatasize(t) ==
    StoreStep(t, "detach_datasize", "detach_size", StoreDatasize(St, loc[t].fd, 0))
\* f->size = 0;
DetachStoreSize(t) ==
    StoreStep(t, "detach_size", "detach_close", StoreSize(St, loc[t].fd, 0))

SizePaths == { <<"a">> }
SizeModes == { {}, {"O_WRONLY"}, {"O_WRONLY", "O_TRUNC"}, {"O_RDWR", "O_APPEND"} }

NextSize ==
    \/ \E fn \in SizePaths, mode \in SizeModes, nid \in FreeNodes : Open(fn, mode, nid)
    \/ \E h \in Handles : Close(h)
    \/ \E h \in Handles, buf \in WriteBufs : Write(h, buf, MaxFileSize)
    \/ \E t \in Threads, fn \in SizePaths, obj \in AttachBufs, nid \in FreeNodes :
           AttachOpen(t, fn, obj, nid)
    \/ \E t \in Threads : AttachStoreData(t)
    \/ \E t \in Threads : AttachStoreDatasize(t)
    \/ \E t \in Threads : AttachStoreSize(t)
    \/ \E t \in Threads : AttachClose(t)
    \/ \E t \in Threads, fn \in SizePaths : DetachOpen(t, fn)
    \/ \E t \in Threads : DetachTake(t)
    \/ \E t \in Threads : DetachStoreData(t)
    \/ \E t \in Threads : DetachStoreDatasize(t)
    \/ \E t \in Threads : DetachStoreSize(t)
    \/ \E t \in Threads : DetachClose(t)
    \/ \E t \in Threads : DetachUnlink(t)

SpecSize == Init /\ [][NextSize]_vars

\* SpecLife: the driver from before fs_ramdisk_init to after
\* fs_ramdisk_shutdown.  The handlers are reachable only in between: init
\* registers them with the VFS and shutdown removes them.
NoFiles == [f \in {} |-> NULL]

InitLife ==
    /\ files = NoFiles
    /\ rootdir = <<>>
    /\ rd_fd_queue = NoFds
    /\ errno = "none"
    /\ pc = [t \in Threads |-> "idle"]
    /\ loc = [t \in Threads |-> IdleLoc]
    /\ rd_mutex = NULL
    /\ rootdir_ptr = "NULL"
    /\ panic = FALSE

ApplyKern(k) ==
    /\ Apply(k.s)
    /\ rootdir_ptr' = k.rootdir_ptr
    /\ rd_mutex' = k.rd_mutex
    /\ UNCHANGED <<pc, loc, panic>>

Live == rootdir_ptr = "LIVE" /\ ~panic

FsInit ==
    /\ ~panic
    /\ ApplyKern(fs_ramdisk_init(Kern(St, rootdir_ptr, rd_mutex)))

FsShutdown ==
    /\ ~panic
    /\ ~ShutdownUsesFreed(Kern(St, rootdir_ptr, rd_mutex))
    /\ ApplyKern(fs_ramdisk_shutdown(Kern(St, rootdir_ptr, rd_mutex)))

\* A second shutdown: a walk through freed memory and a double free.
FsShutdownWild ==
    /\ ~panic
    /\ ShutdownUsesFreed(Kern(St, rootdir_ptr, rd_mutex))
    /\ Undefined(St)

NextLife ==
    \/ FsInit
    \/ FsShutdown
    \/ FsShutdownWild
    \/ \E fn \in Paths, mode \in Modes, nid \in FreeNodes : Live /\ Open(fn, mode, nid)
    \/ \E h \in Handles : Live /\ Close(h)
    \/ \E fn \in Paths : Live /\ Unlink(fn)

SpecLife == InitLife /\ [][NextLife]_vars

\* SpecLock: threads calling into the driver with rd_mutex spelled out.  A
\* thread at a driver call (pc names the call) either waits in
\* mutex_lock_scoped (rd_mutex is not its own) or is inside the handler
\* (rd_mutex = t); the handler's body and the release at its return are one
\* step.  pc "attach_install", "detach_take", "detach_clear" are the
\* statements of attach and detach between two driver calls.
\* The arguments of a call are drawn when its body runs: nothing reads them
\* before.
LockThreads == 1..NumLockThreads
LockPaths == { <<"a">> }
LockModes == { {}, {"O_WRONLY", "O_TRUNC"} }
LockBufs == { << <<2, 1>>, <<1, 1>> >> }
LockHandles == (DOMAIN rd_fd_queue \ { loc[t].fd : t \in LockThreads }) \cup {NULL}
\* The first driver call of each entry point.
EntryCalls == {"open", "close", "unlink", "attach_open", "detach_open"}
\* The positions that are driver calls: each starts with mutex_lock_scoped.
DriverCalls == EntryCalls \cup {"attach_close", "detach_close", "detach_unlink"}

InitLock ==
    /\ files = (RootId :> RootFile)
    /\ rootdir = <<>>
    /\ rd_fd_queue = NoFds
    /\ errno = "none"
    /\ pc = [t \in LockThreads |-> "idle"]
    /\ loc = [t \in LockThreads |-> IdleLoc]
    /\ rd_mutex = NULL
    /\ rootdir_ptr = "LIVE"
    /\ panic = FALSE

\* Descriptors in use or about to be asked for by a call under way.
FdsWanted ==
    Cardinality(DOMAIN rd_fd_queue)
    + Cardinality({ t \in LockThreads : pc[t] \in {"open", "attach_open", "detach_open"} })

\* A thread enters one of the driver's functions (one that opens a
\* descriptor only while the table has room for it).
Call(t, op) ==
    /\ pc[t] = "idle"
    /\ op \in {"open", "attach_open", "detach_open"} => FdsWanted < MaxFds
    /\ pc' = [pc EXCEPT ![t] = op]
    /\ UNCHANGED <<files, rootdir, rd_fd_queue, errno, loc, kern>>

\* mutex_lock_scoped(&rd_mutex): returns once the mutex is free.  rd_mutex
\* is MUTEX_TYPE_NORMAL: a thread that holds it and locks again waits too.
mutex_lock(t) ==
    /\ pc[t] \in DriverCalls
    /\ rd_mutex = NULL
    /\ rd_mutex' = t
    /\ UNCHANGED <<files, rootdir, rd_fd_queue, errno, pc, loc, rootdir_ptr, panic>>

\* A handler that returns with rd_mutex still held.
HolderAfterReturn_Kept(t) == t

\* The holder of rd_mutex once a handler has returned: the scoped lock is
\* dropped on every path out of the function.
HolderAfterReturn(t) == NULL

\* A handler's body, from behind mutex_lock_scoped to its return.
Body(t, at, s) ==
    /\ pc[t] = at
    /\ rd_mutex = t
    /\ Apply(s)
    /\ rd_mutex' = HolderAfterReturn(t)
    /\ UNCHANGED <<rootdir_ptr, panic>>

Goto(t, at) == pc' = [pc EXCEPT ![t] = at]

LOpen(t, fn, mode, nid, mem) ==
    LET r == ramdisk_open_fd(St, fn, mode, nid, mem)
    IN  /\ NULL \notin DOMAIN r.s.files
        /\ Body(t, "open", r.s)
        /\ Goto(t, "idle")
        /\ UNCHANGED loc

LClose(t, h) ==
    /\ Body(t, "close", ramdisk_close(St, h).s)
    /\ Goto(t, "idle")
    /\ UNCHANGED loc

LUnlink(t, fn) ==
    /\ Body(t, "unlink", ramdisk_unlink(St, fn).s)
    /\ Goto(t, "idle")
    /\ UNCHANGED loc

LAttachOpen(t, fn, obj, nid) ==
    LET r == ramdisk_open(St, fn, {"O_WRONLY", "O_TRUNC"}, nid)
    IN  /\ NULL \notin DOMAIN r.s.files
        /\ Body(t, "attach_open", r.s)
        /\ IF r.ret = NULL
           THEN Goto(t, "idle") /\ UNCHANGED loc
           ELSE /\ Goto(t, "attach_install")
                /\ loc' = [loc EXCEPT ![t] = [fn |-> fn, obj |-> obj,
                                              size |-> DLen(obj), fd |-> r.ret]]

LAttachClose(t) ==
    /\ Body(t, "attach_close", ramdisk_close(St, loc[t].fd).s)
    /\ Goto(t, "idle")
    /\ loc' = [loc EXCEPT ![t] = IdleLoc]

LDetachOpen(t, fn) ==
    LET r == ramdisk_open(St, fn, O_RDONLY, NULL)
    IN  /\ Body(t, "detach_open", r.s)
        /\ IF r.ret = NULL
           THEN Goto(t, "idle") /\ UNCHANGED loc
           ELSE /\ Goto(t, "detach_take")
                /\ loc' = [loc EXCEPT ![t] = [IdleLoc EXCEPT !.fn = fn, !.fd = r.ret]]

LDetachClose(t) ==
    /\ Body(t, "detach_close", ramdisk_close(St, loc[t].fd).s)
    /\ Goto(t, "detach_unlink")
    /\ loc' = [loc EXCEPT ![t].fd = NULL]

LDetachUnlink(t) ==
    /\ Body(t, "detach_unlink", ramdisk_unlink(St, loc[t].fn).s)
    /\ Goto(t, "idle")
    /\ loc' = [loc EXCEPT ![t] = IdleLoc]

\* What thread t does once it is inside a function: everything but the call.
Run(t) ==
    \/ \E fn \in LockPaths, mode \in LockModes, nid \in FreeNodes, mem \in {NULL, NewFd(St)} :
           LOpen(t, fn, mode, nid, mem)
    \/ \E h \in LockHandles : LClose(t, h)
    \/ \E fn \in LockPaths : LUnlink(t, fn)
    \/ \E fn \in LockPaths, obj \in LockBufs, nid \in FreeNodes : LAttachOpen(t, fn, obj, nid)
    \/ AttachData(t)
    \/ LAttachClose(t)
    \/ \E fn \in LockPaths : LDetachOpen(t, fn)
    \/ DetachTake(t)
    \/ DetachData(t)
    \/ LDetachClose(t)
    \/ LDetachUnlink(t)

NextLock ==
    \/ \E t \in LockThreads, op \in EntryCalls : Call(t, op)
    \/ \E t \in LockThreads : mutex_lock(t)
    \/ \E t \in LockThreads : Run(t)

\* The scheduler runs every thread that can run, and the mutex hands itself
\* to every thread that keeps waiting for it (its waiters queue up).
SpecLock ==
    /\ InitLock
    /\ [][NextLock]_vars
    /\ \A t \in LockThreads : SF_vars(mutex_lock(t)) /\ WF_vars(Run(t))

\* =================================================================== claims
FdsOn(f) == { h \in DOMAIN rd_fd_queue : rd_fd_queue[h].file = f }
WriteIntent(mode) == ModeOf(mode) # O_RDONLY
IsFile(f) == f \in DOMAIN files /\ ~files[f].isdir
Lookup(s, fn) == ramdisk_find_path(s, s.rootdir, fn, FALSE)

\* C1 -- single-writer exclusivity: a node with a live descriptor opened
\* O_WRONLY or O_RDWR has exactly one live descriptor in all; no reader and
\* no second writer is ever open beside a writer.
SingleWriter ==
    \A f \in DOMAIN files :
        (\E h \in FdsOn(f) : WriteIntent(rd_fd_queue[h].omode))
            => Cardinality(FdsOn(f)) = 1

\* C1 witness: a writer holds a file while the table has room for another
\* descriptor, and a second open of that path, for reading, is turned away.
WriterAlone ==
    \E h \in DOMAIN rd_fd_queue :
        /\ WriteIntent(rd_fd_queue[h].omode)
        /\ FdRoom
        /\ \E fn \in Paths :
               /\ Lookup(St, fn) = rd_fd_queue[h].file
               /\ ramdisk_open(St, fn, O_RDONLY, NULL).ret = NULL

\* C2 -- open-count invariant: every node's usage is the number of live
\* descriptors on it, every descriptor's node is live, and openfor is
\* OPENFOR_NOTHING exactly when usage is 0.
OpenCount ==
    /\ \A h \in DOMAIN rd_fd_queue : rd_fd_queue[h].file \in DOMAIN files
    /\ \A f \in DOMAIN files :
           /\ files[f].usage = Cardinality(FdsOn(f))
           /\ (files[f].openfor = OPENFOR_NOTHING) <=> (files[f].usage = 0)

\* C2 witness: a file held by two descriptors at once.
CountedTwice ==
    \E f \in DOMAIN files :
        /\ IsFile(f)
        /\ files[f].usage = 2
        /\ Cardinality(FdsOn(f)) = 2

\* The modes of Spec that open a file, by intent.
FileModes == { m \in Modes : "O_DIR" \notin m }
WriteModes == { m \in FileModes : WriteIntent(m) }

\* fn names a file that the sharing policy closes to mode: it is open for
\* writing, or it is open for reading and mode asks to write.
PolicyRejects(fn, mode) ==
    LET f == Lookup(St, fn)
    IN  /\ f # NULL
        /\ \/ files[f].openfor = OPENFOR_WRITE
           \/ WriteIntent(mode) /\ files[f].openfor = OPENFOR_READ

\* C3 -- an open that the sharing policy rejects fails with errno EBUSY.
\* (As claimed; the code returns NULL there without setting errno.)
RejectedOpenReportsBusy ==
    \A fn \in Paths, mode \in FileModes :
        PolicyRejects(fn, mode) =>
            LET r == ramdisk_open(St, fn, mode, NULL)
            IN  r.ret = NULL /\ r.s.errno = "EBUSY"

\* C4 -- shared reading: on a file no writer holds, two read-only opens both
\* succeed and raise usage by 2 (to 2 on a file nobody had open); closing
\* either one leaves the node OPENFOR_READ with one unit less; then a further
\* read-only open succeeds and every open with write intent fails, changing
\* nothing.
SharedReading ==
    \A fn \in Paths :
        LET f == Lookup(St, fn)
        IN  (f # NULL /\ files[f].openfor # OPENFOR_WRITE) =>
            LET r1 == ramdisk_open(St, fn, O_RDONLY, NULL)
                r2 == ramdisk_open(r1.s, fn, O_RDONLY, NULL)
            IN  /\ r1.ret # NULL /\ r2.ret # NULL /\ r1.ret # r2.ret
                /\ r2.s.files[f].usage = files[f].usage + 2
                /\ r2.s.files[f].openfor = OPENFOR_READ
                /\ \A h \in {r1.ret, r2.ret} :
                       LET c == ramdisk_close(r2.s, h)
                       IN  /\ c.ret = 0
                           /\ c.s.files[f].openfor = OPENFOR_READ
                           /\ c.s.files[f].usage = files[f].usage + 1
                           /\ ramdisk_open(c.s, fn, O_RDONLY, NULL).ret # NULL
                           /\ \A m \in WriteModes :
                                  LET w == ramdisk_open(c.s, fn, m, NULL)
                                  IN  /\ w.ret = NULL
                                      /\ w.s.files = c.s.files
                                      /\ w.s.fdq = c.s.fdq

\* C4 witness: a file nobody else holds, open twice for reading.
TwoReaders ==
    \E f \in DOMAIN files :
        /\ IsFile(f)
        /\ files[f].openfor = OPENFOR_READ
        /\ files[f].usage = 2
        /\ \A h \in FdsOn(f) : rd_fd_queue[h].omode = O_RDONLY
        /\ Cardinality(UserFds \cap FdsOn(f)) = 2

\* Every descriptor on node f closed, one ramdisk_close after the other.
RECURSIVE CloseAll(_, _)
CloseAll(s, f) ==
    LET hs == { h \in DOMAIN s.fdq : s.fdq[h].file = f }
    IN  IF hs = {} THEN s
        ELSE CloseAll(ramdisk_close(s, CHOOSE h \in hs : TRUE).s, f)

\* What unlink leaves of the state apart from errno.
SameFs(s1, s2) == s1.files = s2.files /\ s1.rootdir = s2.rootdir /\ s1.fdq = s2.fdq

\* The unlink of fn from state s succeeds and takes the node f away: the path
\* resolves no more, and a read-only open of it fails with ENOENT.
UnlinkRemoves(s, fn, f) ==
    LET r == ramdisk_unlink(s, fn)
        o == ramdisk_open(r.s, fn, O_RDONLY, NULL)
    IN  /\ r.ret = 0
        /\ f \notin DOMAIN r.s.files
        /\ \A i \in 1..Len(r.s.rootdir) : r.s.rootdir[i] # f
        /\ \A g \in DOMAIN s.files \ {f} : r.s.files[g] = s.files[g]
        /\ r.s.fdq = s.fdq
        /\ Lookup(r.s, fn) = NULL
        /\ o.ret = NULL /\ o.s.errno = "ENOENT"

\* C5 -- unlink respects open handles: of a path whose node is in use it
\* fails with EBUSY and changes neither node nor descriptors; of an absent
\* path it fails with ENOENT; once every descriptor on the node is closed it
\* succeeds, the node leaves its directory, and a read-only open of the path
\* then fails with ENOENT.
UnlinkRespectsHandles ==
    \A fn \in Paths :
        LET f == Lookup(St, fn)
            r == ramdisk_unlink(St, fn)
        IN  /\ f = NULL => (r.ret = -1 /\ r.s.errno = "ENOENT" /\ SameFs(r.s, St))
            /\ (f # NULL /\ files[f].usage > 0) =>
                   /\ r.ret = -1 /\ r.s.errno = "EBUSY" /\ SameFs(r.s, St)
                   /\ UnlinkRemoves(CloseAll(St, f), fn, f)
            /\ (f # NULL /\ files[f].usage = 0) => UnlinkRemoves(St, fn, f)

\* C5 witness: an unlink was refused with EBUSY (nothing else in these calls
\* sets it) and the file it named is still there, still held.
UnlinkRefused ==
    /\ errno = "EBUSY"
    /\ \E f \in DOMAIN files : IsFile(f) /\ files[f].usage > 0

\* The file system's state after the step.
StNext == [files |-> files', rootdir |-> rootdir', fdq |-> rd_fd_queue',
           errno |-> errno']

\* C7 -- attach installs the caller's buffer as the file: when
\* fs_ramdisk_attach(fn, obj, size) returns 0, the node of fn exists with
\* size = datasize = size, data = obj, usage 0 and OPENFOR_NOTHING; a
\* read-only open of fn then succeeds, total returns size and a read of size
\* bytes returns exactly obj.
AttachInstallsBuffer ==
    [][\A t \in Threads :
          (pc[t] = "attach_close" /\ pc'[t] = "idle") =>
              LET f  == Lookup(StNext, loc[t].fn)
                  o  == ramdisk_open(StNext, loc[t].fn, O_RDONLY, NULL)
                  rd == ramdisk_read(o.s, o.ret, loc[t].size)
              IN  /\ f # NULL
                  /\ files'[f].size = loc[t].size
                  /\ files'[f].datasize = loc[t].size
                  /\ files'[f].data = loc[t].obj
                  /\ files'[f].usage = 0
                  /\ files'[f].openfor = OPENFOR_NOTHING
                  /\ o.ret # NULL
                  /\ ramdisk_total(o.s, o.ret).ret = loc[t].size
                  /\ rd.ret = loc[t].size /\ rd.out = loc[t].obj]_vars

\* C7 witness: no attach or detach is under way and a file stands free whose
\* block is one of the attached buffers, capacity and size both its length
\* (no create, truncate or detach leaves such a capacity).
AttachedFile ==
    /\ \A t \in Threads : pc[t] = "idle"
    /\ \E f \in DOMAIN files :
           /\ IsFile(f)
           /\ files[f].data \in AttachBufs
           /\ files[f].size = DLen(files[f].data)
           /\ files[f].datasize = files[f].size
           /\ files[f].usage = 0

\* C8 -- detach removes the entry: whenever fs_ramdisk_detach(fn) returns 0,
\* the node of fn no longer exists.  (As claimed; the code returns 0 whatever
\* its ramdisk_unlink returned.)
DetachRemovesEntry ==
    [][\A t \in Threads :
          (pc[t] = "detach_unlink" /\ pc'[t] = "idle") =>
              Lookup(StNext, loc[t].fn) = NULL]_vars

\* ------------------------------------------------------- claims of SpecIO
\* Blocks a caller might write, beyond those the behaviours write: empty,
\* short, one block exactly, one byte more, and with bytes in an order.
ProbeBufs ==
    WriteBufs \cup
    { <<>>, << <<1, 24>> >>, << <<2, 25>> >>, << <<1, 1024>> >>, << <<2, 1025>> >>,
      << <<1, 3>>, <<2, 2>>, <<1, 1>> >> }
ProbeOffsets == SeekOffsets \cup {-1, 1, 24}
TruncModes == { {"O_WRONLY", "O_TRUNC"}, {"O_RDWR", "O_TRUNC"} }
Max(a, b) == IF a > b THEN a ELSE b
Min(a, b) == IF a < b THEN a ELSE b

\* C6 -- write/read round trip: wherever open(fn, write + truncate) succeeds,
\* writing buf, closing, opening read-only and reading at least len(buf)
\* bytes returns exactly buf, and total on that descriptor returns len(buf).
RoundTrip ==
    \A fn \in IOPaths, mode \in TruncModes, nid \in FreeNodes, buf \in ProbeBufs :
        LET o == ramdisk_open(St, fn, mode, nid)
        IN  o.ret # NULL =>
            LET w  == ramdisk_write(o.s, o.ret, buf)
                c  == ramdisk_close(w.s, o.ret)
                o2 == ramdisk_open(c.s, fn, O_RDONLY, NULL)
            IN  /\ w.ret = DLen(buf)
                /\ c.ret = 0
                /\ o2.ret # NULL
                /\ ramdisk_total(o2.s, o2.ret).ret = DLen(buf)
                /\ \A more \in {0, 1, rd_blksize} :
                       LET rd == ramdisk_read(o2.s, o2.ret, DLen(buf) + more)
                       IN  rd.ret = DLen(buf) /\ rd.out = buf

\* C6 witness: a file written through a truncating open holds one of the
\* written blocks and has been re-opened read-only and read to its end.
ReadBack ==
    \E h \in DOMAIN rd_fd_queue :
        LET n == files[rd_fd_queue[h].file]
        IN  /\ rd_fd_queue[h].omode = O_RDONLY
            /\ n.data \in WriteBufs
            /\ n.size = DLen(n.data)
            /\ rd_fd_queue[h].ptr = n.size

\* The position a seek asks for, as a number.
SeekWanted(fd, n, offset, whence) ==
    IF whence = "SEEK_SET" THEN offset
    ELSE IF whence = "SEEK_CUR" THEN fd.ptr + offset
    ELSE n.size + offset

\* C9 -- seek: for every file descriptor, offset and whence in {set, cur,
\* end}, a seek to a negative position fails with EINVAL and leaves the cursor
\* where it was; any other sets the cursor to min(position, size) and returns
\* it; no seek changes a node.
SeekContract ==
    \A h \in DOMAIN rd_fd_queue, off \in ProbeOffsets,
       wh \in {"SEEK_SET", "SEEK_CUR", "SEEK_END"} :
        LET fd == rd_fd_queue[h]
            n  == files[fd.file]
            r  == ramdisk_seek(St, h, off, wh)
            want == SeekWanted(fd, n, off, wh)
        IN  ~fd.dir =>
            /\ r.s.files = files /\ r.s.rootdir = rootdir
            /\ IF want < 0
               THEN r.ret = -1 /\ r.s.errno = "EINVAL" /\ r.s.fdq = rd_fd_queue
               ELSE /\ r.ret = Min(want, n.size)
                    /\ r.s.fdq = [rd_fd_queue EXCEPT ![h].ptr = Min(want, n.size)]
                    /\ r.s.errno = errno

\* C9 witness: a descriptor that truncated its file at open now stands before
\* the end of what it wrote: only a seek moves a cursor backwards.
SoughtBack ==
    \E h \in DOMAIN rd_fd_queue :
        /\ rd_fd_queue[h].omode = {"O_WRONLY", "O_TRUNC"}
        /\ rd_fd_queue[h].ptr > 0
        /\ rd_fd_queue[h].ptr < files[rd_fd_queue[h].file].size

\* C10 -- write growth: through a descriptor opened with write intent, a write
\* of L bytes at cursor c returns L, moves the cursor to c + L and makes size
\* max(size, c + L); datasize becomes c + L + 4 * rd_blksize if c + L exceeds
\* it and stays otherwise.  Writing 2000 bytes to a freshly truncated file
\* (datasize rd_blksize) grows it once, to 2000 + 4 * rd_blksize, size 2000.
WriteGrowth ==
    /\ \A h \in DOMAIN rd_fd_queue, buf \in ProbeBufs :
           LET fd == rd_fd_queue[h]
               n  == files[fd.file]
               r  == ramdisk_write(St, h, buf)
               e  == fd.ptr + DLen(buf)
           IN  (~fd.dir /\ WriteIntent(fd.omode)) =>
               /\ r.ret = DLen(buf)
               /\ r.s.fdq[h].ptr = e
               /\ r.s.files[fd.file].size = Max(n.size, e)
               /\ r.s.files[fd.file].datasize =
                      IF e > n.datasize THEN e + 4 * rd_blksize ELSE n.datasize
    /\ \A fn \in IOPaths, mode \in TruncModes, nid \in FreeNodes :
           LET o == ramdisk_open(St, fn, mode, nid)
               f == Lookup(o.s, fn)
               w == ramdisk_write(o.s, o.ret, << <<2, 2000>> >>)
           IN  o.ret # NULL =>
               /\ o.s.files[f].datasize = rd_blksize
               /\ w.ret = 2000
               /\ w.s.files[f].size = 2000
               /\ w.s.files[f].datasize = 2000 + 4 * rd_blksize

\* C10 witness: a file of size 2000 whose block was grown once, from the
\* first rd_blksize bytes, by a write of 2000 bytes at offset 0.
GrownOnce ==
    \E h \in DOMAIN rd_fd_queue :
        LET n == files[rd_fd_queue[h].file]
        IN  /\ WriteIntent(rd_fd_queue[h].omode)
            /\ n.size = 2000
            /\ n.datasize = 2000 + 4 * rd_blksize
            /\ rd_fd_queue[h].ptr = 2000

\* C11 -- stat and fstat report the logical size: for every file node, the
\* st_size of stat(path) and of fstat(descriptor) is the node's content size,
\* the value total returns, not its capacity; for a directory it is -1.
StatReportsSize ==
    /\ \A fn \in IOPaths :
           LET f == Lookup(St, fn)
               r == ramdisk_stat(St, fn)
           IN  f # NULL => (r.ret = 0 /\ r.out.st_size = files[f].size)
    /\ \A h \in DOMAIN rd_fd_queue :
           LET r == ramdisk_fstat(St, h)
           IN  /\ r.ret = 0
               /\ r.out.st_size = IF rd_fd_queue[h].dir THEN -1
                                  ELSE ramdisk_total(St, h).ret
    /\ ramdisk_stat(St, <<>>).out.st_size = -1

\* The state after k readdir calls on h, each finding an entry under its cursor.
RECURSIVE Walk(_, _, _)
Walk(s, h, k) == IF k = 0 THEN s ELSE Walk(ramdisk_readdir(s, h).s, h, k - 1)

\* C12 -- directory enumeration is complete and ends cleanly: from rewinddir
\* on, with the directory left alone, the i-th readdir returns the i-th child
\* (so each child exactly once), and the readdir after the last child -- the
\* first one on an empty directory -- reports end-of-directory: it returns
\* NULL, sets no error and does not fault.
EnumerationEndsCleanly ==
    \A h \in DOMAIN rd_fd_queue :
        rd_fd_queue[h].dir =>
            LET kids == DirList(St, rd_fd_queue[h].file)
                s0   == ramdisk_rewinddir(St, h).s
                sN   == Walk(s0, h, Len(kids))
            IN  /\ \A i \in 1..Len(kids) :
                       LET si == Walk(s0, h, i - 1)
                       IN  /\ ~ReaddirDerefsBadPtr(si, h)
                           /\ ramdisk_readdir(si, h).ret # NULL
                           /\ ramdisk_readdir(si, h).out.name = files[kids[i]].name
                /\ ~ReaddirDerefsBadPtr(sN, h)
                /\ ramdisk_readdir(sN, h).ret = NULL
                /\ ramdisk_readdir(sN, h).s.errno = errno

\* C13 -- all shared state is mutated only under the global lock: every
\* step in which a thread changes a node, the directory list or the
\* descriptor table is taken while that thread holds rd_mutex.
MutationsUnderLock ==
    [][\A t \in LockThreads :
          (/\ pc'[t] # pc[t]
           /\ <<files, rootdir, rd_fd_queue>>' # <<files, rootdir, rd_fd_queue>>)
              => rd_mutex = t]_vars

\* C19 -- no deadlock, and the lock is released on every path: a thread holds
\* rd_mutex only while inside a driver call, never arrives at a driver call
\* (that is, at its mutex_lock) holding it already, and every thread that has
\* entered an operation eventually returns from it.
LockAlwaysReleased ==
    /\ [](\A t \in LockThreads : rd_mutex = t => pc[t] \in DriverCalls)
    /\ [][\A t \in LockThreads :
            (pc'[t] # pc[t] /\ pc'[t] \in DriverCalls) => rd_mutex' # t]_vars
    /\ \A t \in LockThreads : (pc[t] # "idle") ~> (pc[t] = "idle")

\* C19 witness: one thread is inside a handler, holding rd_mutex, while
\* another, half way through detach, waits for it at its next driver call.
LockContended ==
    \E t1, t2 \in LockThreads :
        /\ t1 # t2
        /\ rd_mutex = t1
        /\ pc[t1] \in DriverCalls
        /\ pc[t2] \in {"detach_close", "detach_unlink"}

\* The driver's state now, as fs_ramdisk_init and fs_ramdisk_shutdown take it.
KernNow == Kern(St, rootdir_ptr, rd_mutex)

\* C14 -- initialisation is idempotent: fs_ramdisk_init on an initialised
\* file system changes nothing -- not the root, a node, a descriptor or the
\* mutex.
InitIdempotent ==
    rootdir_ptr = "LIVE" => fs_ramdisk_init(KernNow) = KernNow

\* C14 witness: an initialised file system that holds a file and an open
\* descriptor, which a second initialisation would have dropped.
InitializedInUse ==
    /\ rootdir_ptr = "LIVE"
    /\ rootdir # <<>>
    /\ rd_fd_queue # NoFds

\* C20 -- re-initialisation after shutdown: whenever the file system is not
\* initialised -- before the first fs_ramdisk_init and after
\* fs_ramdisk_shutdown -- fs_ramdisk_init builds a fresh empty root, and
\* fs_ramdisk_shutdown is a no-op.
ReinitAfterShutdown ==
    rootdir_ptr # "LIVE" =>
        /\ fs_ramdisk_init(KernNow).rootdir_ptr = "LIVE"
        /\ fs_ramdisk_init(KernNow).s.files[RootId] = RootFile
        /\ fs_ramdisk_init(KernNow).s.rootdir = <<>>
        /\ ~ShutdownUsesFreed(KernNow)
        /\ fs_ramdisk_shutdown(KernNow) = KernNow

\* Every way open is called in the behaviours above.
AllModes == Modes \cup IOModes \cup ShareModes \cup { {"O_RDWR", "O_DIR"}, {"O_RDWR", "O_TRUNC", "O_DIR"} }

\* C15 -- a failed open changes nothing: whenever ramdisk_open returns NULL,
\* whatever the reason (calloc handing out no rd_fd_t included), no node has
\* been created, no node's openfor, usage, size, datasize or data has
\* changed, and no descriptor has been registered.
FailedOpenChangesNothing ==
    \A fn \in Paths, mode \in AllModes, nid \in FreeNodes, fd \in {NULL, NewFd(St)} :
        LET r == ramdisk_open_fd(St, fn, mode, nid, fd)
        IN  (r.ret = NULL /\ NULL \notin DOMAIN r.s.files) =>
                /\ r.s.files = files
                /\ r.s.rootdir = rootdir
                /\ r.s.fdq = rd_fd_queue

\* fn names nothing: neither a file nor a directory.
Nonexistent(s, fn) ==
    /\ fn # <<>>
    /\ ramdisk_find_path(s, s.rootdir, fn, FALSE) = NULL
    /\ ramdisk_find_path(s, s.rootdir, fn, TRUE) = NULL

\* open(fn, mode) creates exactly one node, a file of size 0 with one block,
\* and returns a descriptor on it.
CreatesOneFile(r, nid) ==
    /\ r.ret # NULL
    /\ DOMAIN r.s.files = DOMAIN files \cup {nid}
    /\ \A f \in DOMAIN files : r.s.files[f] = files[f]
    /\ ~r.s.files[nid].isdir
    /\ r.s.files[nid].size = 0
    /\ r.s.files[nid].datasize = rd_blksize
    /\ r.s.fdq[r.ret].file = nid
    /\ DOMAIN r.s.fdq = DOMAIN rd_fd_queue \cup {r.ret}

CreatesNothing(r, e) ==
    /\ r.ret = NULL
    /\ r.s.errno = e
    /\ r.s.files = files
    /\ r.s.rootdir = rootdir
    /\ r.s.fdq = rd_fd_queue

\* C16 as claimed -- auto-create only on write-open: opening a nonexistent
\* path with write intent and without O_DIR creates exactly one new file node
\* (size 0, datasize rd_blksize) and returns a descriptor on it; opening it
\* read-only or with O_DIR fails with ENOENT and creates nothing.
AutoCreateAsClaimed ==
    \A fn \in Paths, mode \in AllModes, nid \in FreeNodes \ {NULL} :
        LET r == ramdisk_open(St, fn, mode, nid)
        IN  Nonexistent(St, fn) =>
                IF WriteIntent(mode) /\ "O_DIR" \notin mode
                THEN CreatesOneFile(r, nid)
                ELSE CreatesNothing(r, "ENOENT")

\* C16 amended -- the same, except that the file is created only where the
\* directory that is to hold it exists (ENOENT otherwise, nothing created),
\* and that O_DIR together with write intent fails with EISDIR, not ENOENT.
AutoCreate ==
    \A fn \in Paths, mode \in AllModes, nid \in FreeNodes \ {NULL} :
        LET r == ramdisk_open(St, fn, mode, nid)
            parent == ramdisk_get_parent(St, rootdir, fn).ret = 0
        IN  Nonexistent(St, fn) =>
                IF "O_DIR" \in mode /\ WriteIntent(mode) THEN CreatesNothing(r, "EISDIR")
                ELSE IF WriteIntent(mode) /\ parent THEN CreatesOneFile(r, nid)
                ELSE CreatesNothing(r, "ENOENT")

\* C16 witness: a file that open has just created -- empty, one block, held
\* by the one descriptor that created it with write intent.
FreshFile ==
    \E h \in DOMAIN rd_fd_queue :
        LET n == files[rd_fd_queue[h].file]
        IN  /\ rd_fd_queue[h].omode = {"O_RDWR"}
            /\ ~n.isdir
            /\ n.size = 0 /\ n.datasize = rd_blksize /\ n.data = <<>>
            /\ n.usage = 1

\* C17 -- write requires a write-mode descriptor: in every reachable state a
\* write through a descriptor opened read-only, or through a directory
\* descriptor, fails with EBADF and leaves every node (data, size, datasize)
\* and every descriptor's ptr as they were; a write through a descriptor
\* opened with write intent is not rejected.
WriteNeedsWriteMode ==
    \A h \in DOMAIN rd_fd_queue, buf \in ShareBufs :
        LET fd == rd_fd_queue[h]
            r  == ramdisk_write(St, h, buf)
        IN  IF fd.dir \/ ~WriteIntent(fd.omode)
            THEN /\ r.ret = -1
                 /\ r.s.errno = "EBADF"
                 /\ r.s.files = files
                 /\ r.s.fdq = rd_fd_queue
            ELSE r.ret = DLen(buf)

\* C17 witness: one descriptor has written its file, another holds a
\* different file read-only, and a write has just been turned away.
WriteTurnedAway ==
    \E w, h \in DOMAIN rd_fd_queue :
        /\ WriteIntent(rd_fd_queue[w].omode)
        /\ rd_fd_queue[w].ptr > 0
        /\ files[rd_fd_queue[w].file].size > 0
        /\ ~rd_fd_queue[h].dir
        /\ ~WriteIntent(rd_fd_queue[h].omode)
        /\ errno = "EBADF"

\* C18 -- read semantics: for every file descriptor with ptr c on a node of
\* size s and every requested length n, ramdisk_read copies min(n, s - c)
\* bytes from the block starting at c and returns that count, moves ptr
\* forward by exactly that count, returns 0 at end of file, and changes no
\* node (size, datasize, data, openfor, usage).
ReadContract ==
    \A h \in DOMAIN rd_fd_queue, n \in ShareCounts :
        LET fd == rd_fd_queue[h]
            nd == files[fd.file]
            r  == ramdisk_read(St, h, n)
            k  == Min(n, nd.size - fd.ptr)
        IN  ~fd.dir =>
                /\ ~ReadOverruns(St, h, n)
                /\ r.ret = k
                /\ r.out = MemRead(nd.data, fd.ptr, k)
                /\ r.s.fdq[h].ptr = fd.ptr + k
                /\ r.s.files = files

\* C21 -- cursor bound: in every reachable state the ptr of every live file
\* (non-directory) descriptor is at most the size of the node it refers to,
\* so that ramdisk_read's size - ptr never wraps.
CursorWithinSize ==
    \A h \in DOMAIN rd_fd_queue :
        ~rd_fd_queue[h].dir =>
            rd_fd_queue[h].ptr <= files[rd_fd_queue[h].file].size

\* C23 -- directory cursor validity: in every reachable state the ptr of
\* every live directory descriptor is NULL or refers to a node that is now an
\* entry of that directory, never to one that was unlinked and freed.
DirCursorValid ==
    \A h \in DOMAIN rd_fd_queue :
        LET fd == rd_fd_queue[h]
        IN  fd.dir =>
                \/ fd.ptr = NULL
                \/ \E i \in DOMAIN DirList(St, fd.file) : DirList(St, fd.file)[i] = fd.ptr

\* C22 -- size within capacity: in every reachable state every file node has
\* size <= datasize, across creation, truncating open, write with and
\* without growth, attach and detach.
SizeWithinCapacity ==
    \A f \in DOMAIN files : ~files[f].isdir => files[f].size <= files[f].datasize

====
